---- MODULE Spec2Model ----
(***************************************************************************)
(* Model of the CadQuery RAG pipeline of src/main.py: seven pocketflow     *)
(* nodes (prep / exec / post) wired into one flow by create_cadquery_flow, *)
(* run once by query_rag over a shared dict, with the notebook file that   *)
(* SaveToNotebook.exec reads, extends and rewrites.                        *)
(*                                                                         *)
(* Texts are sequences of tokens (a token is a substring the code treats   *)
(* as a unit: a newline, a word, or a code fence, where "[fence-python]"   *)
(* is the opening fence with its language tag and "[fence]" the bare       *)
(* fence).  Relevance scores are tenths (0.9 is 9).                        *)
(***************************************************************************)
EXTENDS Integers, Sequences, FiniteSets, TLC

VARIABLES
    query,           \* query_text handed to query_rag
    shared,          \* the shared dict: a function whose domain is its key set
    curr,            \* the node the flow is at
    phase,           \* "prep" | "exec" | "write" | "post" | "returned"
    prep_res,        \* result of the current activation's prep
    exec_res,        \* result of the current activation's exec
    cur_retry,       \* Node.cur_retry of the current activation
    last_action,     \* label returned by the latest post
    log,             \* phases invoked so far, as <<node, phase>>
    err,             \* error that ended the run ("none" when none)
    errors,          \* number of errors raised by node phases so far
    raised,          \* TRUE iff query_rag let an error escape to its caller
    doc,             \* the notebook file ./query/result.ipynb
    doc0,            \* the notebook file when the run started
    nb,              \* SaveToNotebook.exec's local notebook (its cells)
    guide_ok,        \* TRUE iff the guideline document can be read
    search_results,  \* the list the latest similarity search returned
    labels,          \* <<node, label>> of every post that returned, in order
    overwritten,     \* the keys whose value the latest overwriting post changed
    other_phase,     \* a second run's Save: "ready" | "write" | "done"
    other_nb,        \* the second run's local notebook (its cells)
    overlapped       \* TRUE iff one run read the notebook file between the
                     \* other run's read and write of it

vars == <<query, shared, curr, phase, prep_res, exec_res, cur_retry,
          last_action, log, err, errors, raised, doc, doc0, nb,
          guide_ok, search_results, labels, overwritten, other_phase,
          other_nb, overlapped>>

\* the second run's Save and what tells the two runs' order
otherVars == <<other_phase, other_nb, overlapped>>

(***************************************************************************)
(* Bounds                                                                  *)
(***************************************************************************)
\* longest list the search collaborator returns in the model
MaxResults == 3
\* most node activations of one run in the model
MaxActivations == 11

(***************************************************************************)
(* Program constants                                                       *)
(***************************************************************************)
\* k of similarity_search_with_score
TopK == 5
\* (variant: the nodes constructed with max_retries=2)
MaxRetriesTwice == 1 + 1

\* max_retries of Node(), as the nodes are constructed without arguments
MaxRetries == 1

Nodes == {"Analyze", "Decompose", "Retrieve", "Evaluate", "Generate",
          "Verify", "Save"}
None == "None"
Labels == {"default", "insufficient_context", "invalid_code"}

Min(a, b) == IF a < b THEN a ELSE b

(***************************************************************************)
(* Inputs                                                                  *)
(***************************************************************************)
Queries == { <<"hollow", "cylinder">>, <<"mug", "\n", "handle">> }

\* documents of the indexed corpus: passage, score, identifier
\* (docD has no "id" in its metadata, docC and docD have equal scores)
Corpus ==
    { [page |-> "docA", score |-> 9, id |-> "idA"],
      [page |-> "docB", score |-> 3, id |-> "idB"],
      [page |-> "docC", score |-> 6, id |-> "idC"],
      [page |-> "docD", score |-> 6, id |-> None] }

RECURSIVE SeqsNoRepeat(_, _)
SeqsNoRepeat(S, n) ==
    IF n = 0 THEN { <<>> }
    ELSE LET shorter == SeqsNoRepeat(S, n - 1) IN
         shorter \cup
         { Append(p[1], p[2]) :
             p \in { q \in shorter \X S :
                       /\ Len(q[1]) = n - 1
                       /\ \A i \in 1..Len(q[1]) : q[1][i] # q[2] } }

\* what similarity_search_with_score(query, k=5) may return
SearchResults == SeqsNoRepeat(Corpus, Min(TopK, MaxResults))

\* texts the language model may answer with
AnalysisTexts == { <<"type">> }
StepsTexts == { <<"steps">> }
EvaluationTexts == { <<"relevant">>, <<"poor">> }
VerificationTexts == { <<"valid">>, <<"invalid">> }
CodeTexts == { <<"[fence-python]", "\n", "import", "x", "\n", "[fence]">>,
               <<" ", "import", "x">> }

GuideText == <<"guide">>

\* states of the notebook file: absent, unreadable, or a notebook of cells
AbsentDoc == [state |-> "absent", cells |-> <<>>]
CorruptDoc == [state |-> "corrupt", cells |-> <<>>]
NotebookDoc(cells) == [state |-> "ok", cells |-> cells]
OldCell == [source |-> <<"###", "old", "\n", "import", "y">>]
InitialDocs == { AbsentDoc, CorruptDoc, NotebookDoc(<<>>),
                 NotebookDoc(<<OldCell>>) }

(***************************************************************************)
(* Text functions                                                          *)
(***************************************************************************)
IsSpace(t) == t \in {" ", "\n"}

RECURSIVE LStrip(_)
LStrip(s) ==
    IF s # <<>> /\ IsSpace(Head(s)) THEN LStrip(Tail(s)) ELSE s

RECURSIVE RStrip(_)
RStrip(s) ==
    IF s # <<>> /\ IsSpace(s[Len(s)])
    THEN RStrip(SubSeq(s, 1, Len(s) - 1)) ELSE s

\* str.strip()
Strip(s) == RStrip(LStrip(s))

\* str.replace(tok, "")
Remove(s, tok) == SelectSeq(s, LAMBDA t : t # tok)

\* str.replace("\n", "\n##")
RECURSIVE ReplaceNewlines(_)
ReplaceNewlines(s) ==
    IF s = <<>> THEN <<>>
    ELSE (IF Head(s) = "\n" THEN <<"\n", "##">> ELSE <<Head(s)>>)
         \o ReplaceNewlines(Tail(s))

\* code_response with both fences replaced by "" and then strip()
CodeResponsePy(code_response) ==
    Strip(Remove(Remove(code_response, "[fence-python]"), "[fence]"))

\* the source of the new code cell
NewCode(query_text, code_response) ==
    <<"###">> \o ReplaceNewlines(query_text) \o <<"\n">>
              \o CodeResponsePy(code_response)

NewCodeCell(query_text, code_response) ==
    [source |-> NewCode(query_text, code_response)]

(***************************************************************************)
(* RetrieveContext                                                         *)
(***************************************************************************)
\* insert x into a list sorted by descending score, behind every element
\* whose score is at least x's (the sort is stable)
RECURSIVE InsertDesc(_, _)
InsertDesc(t, x) ==
    IF t = <<>> THEN <<x>>
    ELSE IF Head(t).score >= x.score
         THEN <<Head(t)>> \o InsertDesc(Tail(t), x)
         ELSE <<x>> \o t

RECURSIVE SortInto(_, _)
SortInto(acc, s) ==
    IF s = <<>> THEN acc ELSE SortInto(InsertDesc(acc, Head(s)), Tail(s))

\* (variant: the search result used as returned, without the sort)
SortedResultsUnsorted(results) == results

\* sorted(results, key=lambda x: x[1], reverse=True)
SortedResults(results) == SortInto(<<>>, results)

\* _build_base_context(): the fixed worked examples
BaseContext == <<"examples">>

\* (variant: the loop of post started from the context already in shared)
BuildContextAccumulating(chunks) ==
    (IF "context" \in DOMAIN shared THEN shared["context"] ELSE BaseContext)
    \o [i \in 1..(2 * Len(chunks)) |->
          IF i % 2 = 1 THEN "\n\n---\n\n" ELSE chunks[i \div 2].page]

\* context_text after the loop of post
RECURSIVE BuildContext(_)
BuildContext(chunks) ==
    IF chunks = <<>> THEN BaseContext
    ELSE BuildContext(SubSeq(chunks, 1, Len(chunks) - 1))
         \o <<"\n\n---\n\n", chunks[Len(chunks)].page>>

\* (variant: chunks without an "id" are left out)
SourceIdsDroppingMissing(chunks) ==
    LET withId == SelectSeq(chunks, LAMBDA c : c.id # None)
    IN  [i \in 1..Len(withId) |-> withId[i].id]

\* [chunk[0].metadata.get("id", None) for chunk in exec_res]
SourceIds(chunks) == [i \in 1..Len(chunks) |-> chunks[i].id]

(***************************************************************************)
(* GenerateCode                                                            *)
(***************************************************************************)
\* (variant: the except clause returns nothing)
LoadContextFromFileNoFallback(readable) ==
    IF readable THEN GuideText ELSE <<>>

\* load_context_from_file(guidelines_path)
LoadContextFromFile(readable) ==
    IF readable THEN GuideText ELSE <<"No guidelines available.">>

\* (variant: the retrieved context put into the prompt with the guidelines)
FormatPromptWithRetrieved(context, question) ==
    [template |-> "PROMPT_TEMPLATE",
     context |-> context \o (IF "context" \in DOMAIN shared
                               THEN shared["context"] ELSE <<>>),
     question |-> question]

\* PROMPT_TEMPLATE with its two placeholders filled
FormatPrompt(context, question) ==
    [template |-> "PROMPT_TEMPLATE", context |-> context,
     question |-> question]

(***************************************************************************)
(* SaveToNotebook                                                          *)
(***************************************************************************)
\* nbf.v4.new_notebook()
NewNotebook == <<>>

\* (variant: nbf.read without the try/except around it)
ReadNotebookRaising(d) ==
    IF d.state = "absent"
    THEN [raises |-> FALSE, cells |-> NewNotebook]
    ELSE IF d.state = "ok"
         THEN [raises |-> FALSE, cells |-> d.cells]
         ELSE [raises |-> TRUE, cells |-> NewNotebook]

\* (variant: a new notebook whatever the file holds)
ReadNotebookAlwaysNew(d) == [raises |-> FALSE, cells |-> NewNotebook]

\* lines 154-162: the cells of nb, and whether reading raised
ReadNotebook(d) ==
    IF d.state = "absent"
    THEN [raises |-> FALSE, cells |-> NewNotebook]
    ELSE IF d.state = "ok"
         THEN [raises |-> FALSE, cells |-> d.cells]
         ELSE [raises |-> FALSE, cells |-> NewNotebook]

\* (variant: the notebook's cells replaced by the new cell)
AppendCellReplacing(cells, cell) == <<cell>>

\* nb.cells.append(new_code_cell)
AppendCell(cells, cell) == Append(cells, cell)

(***************************************************************************)
(* The flow                                                                *)
(***************************************************************************)
\* (variant: evaluate left out of the default chain)
SuccessorsSkippingEvaluate ==
    [n \in Nodes |->
       CASE n = "Analyze"   -> [l \in {"default"} |-> "Decompose"]
         [] n = "Decompose" -> [l \in {"default"} |-> "Retrieve"]
         [] n = "Retrieve"  -> [l \in {"default"} |-> "Generate"]
         [] n = "Evaluate"  -> [l \in {"insufficient_context"} |-> "Retrieve"]
         [] n = "Generate"  -> [l \in {"default"} |-> "Verify"]
         [] n = "Verify"    -> [l \in {"default", "invalid_code"} |->
                                  IF l = "default" THEN "Save"
                                                   ELSE "Generate"]
         [] n = "Save"      -> [l \in {} |-> None]]

\* (variant: both conditional edges given the target of the default edge)
SuccessorsBackEdgesMiswired ==
    [n \in Nodes |->
       CASE n = "Analyze"   -> [l \in {"default"} |-> "Decompose"]
         [] n = "Decompose" -> [l \in {"default"} |-> "Retrieve"]
         [] n = "Retrieve"  -> [l \in {"default"} |-> "Evaluate"]
         [] n = "Evaluate"  -> [l \in {"default", "insufficient_context"} |->
                                  "Generate"]
         [] n = "Generate"  -> [l \in {"default"} |-> "Verify"]
         [] n = "Verify"    -> [l \in {"default", "invalid_code"} |-> "Save"]
         [] n = "Save"      -> [l \in {} |-> None]]

\* (variant: the chain continued with  save >> analyze)
SuccessorsSaveLoops ==
    [n \in Nodes |->
       CASE n = "Analyze"   -> [l \in {"default"} |-> "Decompose"]
         [] n = "Decompose" -> [l \in {"default"} |-> "Retrieve"]
         [] n = "Retrieve"  -> [l \in {"default"} |-> "Evaluate"]
         [] n = "Evaluate"  -> [l \in {"default", "insufficient_context"} |->
                                  IF l = "default" THEN "Generate"
                                                   ELSE "Retrieve"]
         [] n = "Generate"  -> [l \in {"default"} |-> "Verify"]
         [] n = "Verify"    -> [l \in {"default", "invalid_code"} |->
                                  IF l = "default" THEN "Save"
                                                   ELSE "Generate"]
         [] n = "Save"      -> [l \in {"default"} |-> "Analyze"]]

\* (variant: retrieve left out of the default chain)
SuccessorsSkippingRetrieve ==
    [n \in Nodes |->
       CASE n = "Analyze"   -> [l \in {"default"} |-> "Decompose"]
         [] n = "Decompose" -> [l \in {"default"} |-> "Evaluate"]
         [] n = "Retrieve"  -> [l \in {"default"} |-> "Evaluate"]
         [] n = "Evaluate"  -> [l \in {"default", "insufficient_context"} |->
                                  IF l = "default" THEN "Generate"
                                                   ELSE "Retrieve"]
         [] n = "Generate"  -> [l \in {"default"} |-> "Verify"]
         [] n = "Verify"    -> [l \in {"default", "invalid_code"} |->
                                  IF l = "default" THEN "Save"
                                                   ELSE "Generate"]
         [] n = "Save"      -> [l \in {} |-> None]]

\* (variant: the two conditional edges not registered)
SuccessorsWithoutBackEdges ==
    [n \in Nodes |->
       CASE n = "Analyze"   -> [l \in {"default"} |-> "Decompose"]
         [] n = "Decompose" -> [l \in {"default"} |-> "Retrieve"]
         [] n = "Retrieve"  -> [l \in {"default"} |-> "Evaluate"]
         [] n = "Evaluate"  -> [l \in {"default"} |-> "Generate"]
         [] n = "Generate"  -> [l \in {"default"} |-> "Verify"]
         [] n = "Verify"    -> [l \in {"default"} |-> "Save"]
         [] n = "Save"      -> [l \in {} |-> None]]

\* successors of every node after create_cadquery_flow
Successors ==
    [n \in Nodes |->
       CASE n = "Analyze"   -> [l \in {"default"} |-> "Decompose"]
         [] n = "Decompose" -> [l \in {"default"} |-> "Retrieve"]
         [] n = "Retrieve"  -> [l \in {"default"} |-> "Evaluate"]
         [] n = "Evaluate"  -> [l \in {"default", "insufficient_context"} |->
                                  IF l = "default" THEN "Generate"
                                                   ELSE "Retrieve"]
         [] n = "Generate"  -> [l \in {"default"} |-> "Verify"]
         [] n = "Verify"    -> [l \in {"default", "invalid_code"} |->
                                  IF l = "default" THEN "Save"
                                                   ELSE "Generate"]
         [] n = "Save"      -> [l \in {} |-> None]]

\* Flow(start=analyze)
StartNode == "Analyze"

\* the node the flow goes to when node n returns label l
GetNextNode(n, l) ==
    IF l \in DOMAIN Successors[n] THEN Successors[n][l] ELSE None

\* (variant: the label chosen from the evaluation text)
EvaluateLabelGated(evaluation) ==
    IF evaluation = <<"poor">> THEN "insufficient_context" ELSE "default"

\* label returned by EvaluateContext.post
EvaluateLabel(evaluation) == "default"

\* label returned by VerifyCode.post
VerifyLabel(verification) == "default"

\* errors that "except Exception" of query_rag catches
Catches(e) == e \in {"KeyError", "CollaboratorFailure", "NotebookReadError"}

\* (variant: shared = {k: v})
PutReplacing(d, k, v) == [x \in {k} |-> v]

\* (variant: the verification stored under the key of the code)
PutMiskeyed(d, k, v) ==
    LET key == IF k = "code_verification" THEN "code_response" ELSE k
    IN  [x \in DOMAIN d \cup {key} |-> IF x = key THEN v ELSE d[x]]

\* shared[k] = v
Put(d, k, v) == [x \in DOMAIN d \cup {k} |-> IF x = k THEN v ELSE d[x]]

\* the nodes activated so far, in order
Trace ==
    LET preps == SelectSeq(log, LAMBDA e : e[2] = "prep")
    IN  [i \in 1..Len(preps) |-> preps[i][1]]

(***************************************************************************)
(* Initial state: query_rag has built the flow and the shared dict         *)
(***************************************************************************)
Init ==
    /\ query \in Queries
    /\ shared = [k \in {"query"} |-> query]
    /\ curr = StartNode
    /\ phase = "prep"
    /\ prep_res = <<>>
    /\ exec_res = <<>>
    /\ cur_retry = 0
    /\ last_action = None
    /\ log = <<>>
    /\ err = "none"
    /\ errors = 0
    /\ raised = FALSE
    /\ doc \in InitialDocs
    /\ doc0 = doc
    /\ nb = <<>>
    /\ guide_ok \in BOOLEAN
    /\ search_results = <<>>
    /\ labels = <<>>
    /\ overwritten = {}
    /\ other_phase = "ready"
    /\ other_nb = <<>>
    /\ overlapped = FALSE

(***************************************************************************)
(* Errors                                                                  *)
(***************************************************************************)
\* an error leaves flow.run and reaches the except clause of query_rag
Throw(e) ==
    /\ err' = e
    /\ errors' = errors + 1
    /\ phase' = "returned"
    /\ raised' = ~Catches(e)

\* exec raised e inside Node._exec: re-invoke exec while retries remain,
\* otherwise let e propagate
ExecFails(e) ==
    IF cur_retry = MaxRetries - 1
    THEN Throw(e) /\ UNCHANGED cur_retry
    ELSE /\ errors' = errors + 1
         /\ cur_retry' = cur_retry + 1
         /\ phase' = "exec"
         /\ UNCHANGED <<err, raised>>

(***************************************************************************)
(* The three phases of an activation                                       *)
(***************************************************************************)
\* prep of node n: reads the keys `keys` of shared, returns val
PrepStep(n, keys, val) ==
    /\ curr = n
    /\ phase = "prep"
    /\ log' = Append(log, <<n, "prep">>)
    /\ IF keys \subseteq DOMAIN shared
       THEN /\ prep_res' = val
            /\ phase' = "exec"
            /\ cur_retry' = 0
            /\ UNCHANGED <<err, errors, raised>>
       ELSE /\ Throw("KeyError")
            /\ UNCHANGED <<prep_res, cur_retry>>
    /\ UNCHANGED <<query, shared, curr, exec_res, last_action, doc, doc0,
                   nb, guide_ok, search_results, labels, overwritten>>
    /\ UNCHANGED otherVars

\* exec of a node that asks the language model: any answer of outs, or the
\* call fails
ExecStep(n, outs) ==
    /\ curr = n
    /\ phase = "exec"
    /\ log' = Append(log, <<n, "exec">>)
    /\ \/ \E out \in outs :
            /\ exec_res' = out
            /\ phase' = "post"
            /\ UNCHANGED <<err, errors, raised, cur_retry>>
       \/ /\ ExecFails("CollaboratorFailure")
          /\ UNCHANGED exec_res
    /\ UNCHANGED <<query, shared, curr, prep_res, last_action, doc, doc0,
                   nb, guide_ok, search_results, labels, overwritten>>
    /\ UNCHANGED otherVars

\* post of node n: reads the keys `keys`, leaves shared as newShared and
\* returns label l, on which the flow moves to the next node or ends
PostStep(n, keys, newShared, l) ==
    /\ curr = n
    /\ phase = "post"
    /\ log' = Append(log, <<n, "post">>)
    /\ IF keys \subseteq DOMAIN shared
       THEN /\ shared' = newShared
            /\ last_action' = l
            /\ labels' = Append(labels, <<n, l>>)
            /\ overwritten' =
                 LET replaced == { k \in DOMAIN shared \cap DOMAIN newShared :
                                     newShared[k] # shared[k] }
                 IN  IF replaced = {} THEN overwritten
                     ELSE replaced
            /\ IF GetNextNode(n, l) = None
               THEN /\ curr' = None
                    /\ phase' = "returned"
               ELSE /\ Len(Trace) < MaxActivations
                    /\ curr' = GetNextNode(n, l)
                    /\ phase' = "prep"
            /\ UNCHANGED <<err, errors, raised>>
       ELSE /\ Throw("KeyError")
            /\ UNCHANGED <<shared, last_action, curr, labels, overwritten>>
    /\ prep_res' = <<>>
    /\ exec_res' = <<>>
    /\ UNCHANGED <<query, cur_retry, doc, doc0, nb, guide_ok,
                   search_results>>
    /\ UNCHANGED otherVars

(***************************************************************************)
(* AnalyzeQuery                                                            *)
(***************************************************************************)
AnalyzePrep == PrepStep("Analyze", {"query"}, shared["query"])

AnalyzeExec == ExecStep("Analyze", AnalysisTexts)

AnalyzePostWith(l) ==
    PostStep("Analyze", {}, Put(shared, "query_type", exec_res), l)

AnalyzePost == AnalyzePostWith("default")

(***************************************************************************)
(* DecomposeTask                                                           *)
(***************************************************************************)
DecomposePrep == PrepStep("Decompose", {"query"}, shared["query"])

DecomposeExec == ExecStep("Decompose", StepsTexts)

DecomposePostWith(l) ==
    PostStep("Decompose", {}, Put(shared, "task_steps", exec_res), l)

DecomposePost == DecomposePostWith("default")

(***************************************************************************)
(* RetrieveContext                                                         *)
(***************************************************************************)
RetrievePrep == PrepStep("Retrieve", {"query"}, shared["query"])

\* (variant: exec also stores the sorted result in the shared dict)
RetrieveExecWritingShared ==
    /\ curr = "Retrieve"
    /\ phase = "exec"
    /\ log' = Append(log, <<"Retrieve", "exec">>)
    /\ \/ \E results \in SearchResults :
            /\ search_results' = results
            /\ exec_res' = SortedResults(results)
            /\ shared' = Put(shared, "sources",
                             SourceIds(SortedResults(results)))
            /\ phase' = "post"
            /\ UNCHANGED <<err, errors, raised, cur_retry>>
       \/ /\ ExecFails("CollaboratorFailure")
          /\ UNCHANGED <<exec_res, search_results, shared>>
    /\ UNCHANGED <<query, curr, prep_res, last_action, doc, doc0,
                   nb, guide_ok, labels, overwritten>>
    /\ UNCHANGED otherVars

RetrieveExec ==
    /\ curr = "Retrieve"
    /\ phase = "exec"
    /\ log' = Append(log, <<"Retrieve", "exec">>)
    /\ \/ \E results \in SearchResults :
            /\ search_results' = results
            /\ exec_res' = SortedResults(results)
            /\ phase' = "post"
            /\ UNCHANGED <<err, errors, raised, cur_retry>>
       \/ /\ ExecFails("CollaboratorFailure")
          /\ UNCHANGED <<exec_res, search_results>>
    /\ UNCHANGED <<query, shared, curr, prep_res, last_action, doc, doc0,
                   nb, guide_ok, labels, overwritten>>
    /\ UNCHANGED otherVars

RetrievePostWith(l) ==
    PostStep("Retrieve", {},
             Put(Put(shared, "context", BuildContext(exec_res)),
                 "sources", SourceIds(exec_res)), l)

RetrievePost == RetrievePostWith("default")

(***************************************************************************)
(* EvaluateContext                                                         *)
(***************************************************************************)
EvaluatePrep ==
    PrepStep("Evaluate", {"context", "query"},
             <<shared["context"], shared["query"]>>)

EvaluateExec == ExecStep("Evaluate", EvaluationTexts)

EvaluatePostWith(l) ==
    PostStep("Evaluate", {}, Put(shared, "context_evaluation", exec_res), l)

EvaluatePost == EvaluatePostWith(EvaluateLabel(exec_res))

(***************************************************************************)
(* GenerateCode                                                            *)
(***************************************************************************)
GeneratePrep ==
    PrepStep("Generate", {"query"},
             FormatPrompt(LoadContextFromFile(guide_ok), shared["query"]))

\* response.content.strip()
GenerateExec == ExecStep("Generate", { Strip(c) : c \in CodeTexts })

GeneratePostWith(l) ==
    PostStep("Generate", {}, Put(shared, "code_response", exec_res), l)

GeneratePost == GeneratePostWith("default")

(***************************************************************************)
(* VerifyCode                                                              *)
(***************************************************************************)
VerifyPrep ==
    PrepStep("Verify", {"code_response"}, shared["code_response"])

VerifyExec == ExecStep("Verify", VerificationTexts)

VerifyPostWith(l) ==
    PostStep("Verify", {}, Put(shared, "code_verification", exec_res), l)

VerifyPost == VerifyPostWith(VerifyLabel(exec_res))

(***************************************************************************)
(* SaveToNotebook                                                          *)
(***************************************************************************)
SavePrep ==
    PrepStep("Save", {"query", "code_response"},
             <<shared["query"], shared["code_response"]>>)

\* exec up to the append (lines 145-168): makedirs may fail; the notebook is
\* read, or started anew, and the new cell appended to the local notebook
SaveExec ==
    /\ curr = "Save"
    /\ phase = "exec"
    /\ log' = Append(log, <<"Save", "exec">>)
    /\ \/ /\ ExecFails("CollaboratorFailure")
          /\ UNCHANGED <<nb, overlapped>>
       \/ IF ReadNotebook(doc).raises
          THEN /\ ExecFails("NotebookReadError")
               /\ UNCHANGED <<nb, overlapped>>
          ELSE /\ nb' = AppendCell(ReadNotebook(doc).cells,
                                   NewCodeCell(prep_res[1], prep_res[2]))
               /\ overlapped' = (overlapped \/ other_phase = "write")
               /\ phase' = "write"
               /\ UNCHANGED <<err, errors, raised, cur_retry>>
    /\ UNCHANGED <<query, shared, curr, prep_res, exec_res, last_action,
                   doc, doc0, guide_ok, search_results, labels, overwritten,
                   other_phase, other_nb>>

\* the rest of exec (lines 170-172): open(.., "w") may fail and leave the
\* file as it was; once it has succeeded the file is truncated, and a
\* failing nbf.write leaves it without a readable notebook
SaveWrite ==
    /\ curr = "Save"
    /\ phase = "write"
    /\ \/ /\ ExecFails("CollaboratorFailure")
          /\ UNCHANGED <<doc, exec_res>>
       \/ /\ doc' = CorruptDoc
          /\ ExecFails("CollaboratorFailure")
          /\ UNCHANGED exec_res
       \/ /\ doc' = NotebookDoc(nb)
          /\ exec_res' = TRUE
          /\ phase' = "post"
          /\ UNCHANGED <<err, errors, raised, cur_retry>>
    /\ UNCHANGED <<query, shared, curr, prep_res, last_action, log, doc0,
                   nb, guide_ok, search_results, labels, overwritten>>
    /\ UNCHANGED otherVars

SavePostWith(l) ==
    PostStep("Save", {"code_response", "sources"}, shared, l)

SavePost == SavePostWith("default")

(***************************************************************************)
(* Specifications                                                          *)
(***************************************************************************)
Next ==
    \/ AnalyzePrep \/ AnalyzeExec \/ AnalyzePost
    \/ DecomposePrep \/ DecomposeExec \/ DecomposePost
    \/ RetrievePrep \/ RetrieveExec \/ RetrievePost
    \/ EvaluatePrep \/ EvaluateExec \/ EvaluatePost
    \/ GeneratePrep \/ GenerateExec \/ GeneratePost
    \/ VerifyPrep \/ VerifyExec \/ VerifyPost
    \/ SavePrep \/ SaveExec \/ SaveWrite \/ SavePost

\* the run of query_rag with the nodes as written
Spec == Init /\ [][Next]_vars

\* the run is synchronous: a phase that can run does run
FairSpec == Spec /\ WF_vars(Next)

(***************************************************************************)
(* The wired graph on its own: every post may return any label             *)
(***************************************************************************)
AnalyzePostAny == \E l \in Labels : AnalyzePostWith(l)
DecomposePostAny == \E l \in Labels : DecomposePostWith(l)
RetrievePostAny == \E l \in Labels : RetrievePostWith(l)
EvaluatePostAny == \E l \in Labels : EvaluatePostWith(l)
GeneratePostAny == \E l \in Labels : GeneratePostWith(l)
VerifyPostAny == \E l \in Labels : VerifyPostWith(l)
SavePostAny == \E l \in Labels : SavePostWith(l)

NextGraph ==
    \/ AnalyzePrep \/ AnalyzeExec \/ AnalyzePostAny
    \/ DecomposePrep \/ DecomposeExec \/ DecomposePostAny
    \/ RetrievePrep \/ RetrieveExec \/ RetrievePostAny
    \/ EvaluatePrep \/ EvaluateExec \/ EvaluatePostAny
    \/ GeneratePrep \/ GenerateExec \/ GeneratePostAny
    \/ VerifyPrep \/ VerifyExec \/ VerifyPostAny
    \/ SavePrep \/ SaveExec \/ SaveWrite \/ SavePostAny

\* one run, for the query of two lines, an existing notebook and a readable
\* guideline document (the graph does not depend on them)
GraphInit ==
    /\ Init
    /\ query = <<"mug", "\n", "handle">>
    /\ doc = NotebookDoc(<<OldCell>>)
    /\ guide_ok

GraphSpec == GraphInit /\ [][NextGraph]_vars

(***************************************************************************)
(* Two runs saving into the same notebook file.  The second run is one in  *)
(* which no call fails; only its Save touches the file.                    *)
(***************************************************************************)
\* the code cell of the second run
OtherCell == NewCodeCell(<<"other", "query">>, <<"import", "z">>)

\* the second run's exec up to the append (lines 145-168)
OtherSaveExec ==
    /\ other_phase = "ready"
    /\ ~ReadNotebook(doc).raises
    /\ other_nb' = AppendCell(ReadNotebook(doc).cells, OtherCell)
    /\ other_phase' = "write"
    /\ overlapped' = (overlapped \/ (curr = "Save" /\ phase = "write"))
    /\ UNCHANGED <<query, shared, curr, phase, prep_res, exec_res, cur_retry,
                   last_action, log, err, errors, raised, doc, doc0, nb,
                   guide_ok, search_results, labels, overwritten>>

\* the rest of the second run's exec (lines 170-172)
OtherSaveWrite ==
    /\ other_phase = "write"
    /\ doc' = NotebookDoc(other_nb)
    /\ other_phase' = "done"
    /\ UNCHANGED <<query, shared, curr, phase, prep_res, exec_res, cur_retry,
                   last_action, log, err, errors, raised, doc0, nb,
                   guide_ok, search_results, labels, overwritten, other_nb,
                   overlapped>>

NextConc ==
    \/ AnalyzePrep \/ AnalyzeExec \/ AnalyzePost
    \/ DecomposePrep \/ DecomposeExec \/ DecomposePost
    \/ RetrievePrep \/ RetrieveExec \/ RetrievePost
    \/ EvaluatePrep \/ EvaluateExec \/ EvaluatePost
    \/ GeneratePrep \/ GenerateExec \/ GeneratePost
    \/ VerifyPrep \/ VerifyExec \/ VerifyPost
    \/ SavePrep \/ SaveExec \/ SaveWrite \/ SavePost
    \/ OtherSaveExec \/ OtherSaveWrite

ConcSpec == Init /\ [][NextConc]_vars

(***************************************************************************)
(* Properties                                                              *)
(***************************************************************************)
IsPrefix(s, t) == Len(s) <= Len(t) /\ SubSeq(t, 1, Len(s)) = s

Count(s, x) == Cardinality({ i \in 1..Len(s) : s[i] = x })

\* the phase invoked last
LastPhase == log[Len(log)]

\* a post has just returned a label to the flow
JustPosted(n) == log # <<>> /\ LastPhase = <<n, "post">> /\ err = "none"

Finished == phase = "returned" /\ err = "none"

\* the passages of a context, in the order they take in it
ContextPages(ctx) == [i \in 1..((Len(ctx) - 1) \div 2) |-> ctx[2 * i + 1]]

ScoreOfPage(page) == (CHOOSE d \in Corpus : d.page = page).score
IdOfPage(page) == (CHOOSE d \in Corpus : d.page = page).id

\* position of a passage in the list the search returned
ReturnedAt(page) ==
    CHOOSE i \in 1..Len(search_results) : search_results[i].page = page

\* context and sources are those written from search_results
RetrieveWritten ==
    /\ {"context", "sources"} \subseteq DOMAIN shared
    /\ ~(curr = "Retrieve" /\ phase = "post")

\* the context is the preamble followed by one separator and passage per
\* returned pair
ContextHoldsReturned ==
    LET ctx == shared["context"] IN
    /\ Len(ctx) = Len(BaseContext) + 2 * Len(search_results)
    /\ SubSeq(ctx, 1, Len(BaseContext)) = BaseContext
    /\ { ContextPages(ctx)[i] : i \in 1..Len(search_results) }
         = { search_results[i].page : i \in 1..Len(search_results) }

\* C1: when no collaborator call fails, the run activates Analyze, Decompose,
\* Retrieve, Evaluate, Generate, Verify, Save in that order, each once, and
\* then terminates.
C1_LinearBackbone ==
    /\ [](errors = 0 =>
            IsPrefix(Trace, <<"Analyze", "Decompose", "Retrieve", "Evaluate",
                              "Generate", "Verify", "Save">>))
    /\ [](phase = "returned" /\ errors = 0 =>
            Trace = <<"Analyze", "Decompose", "Retrieve", "Evaluate",
                      "Generate", "Verify", "Save">>)
    /\ <>(phase = "returned")

C1_Witness ==
    /\ Finished
    /\ errors = 0
    /\ Len(Trace) = 7
    /\ Len(log) = 21

\* C2: a run that completes leaves a notebook with exactly one entry more
\* than before the run, the entries of before unchanged and in their places.
C2_AppendsOneEntry ==
    Finished =>
        /\ doc.state = "ok"
        /\ Len(doc.cells) = Len(doc0.cells) + 1
        /\ SubSeq(doc.cells, 1, Len(doc0.cells)) = doc0.cells

C2_Witness ==
    /\ Finished
    /\ doc0.cells # <<>>
    /\ Len(doc.cells) = 2

\* C3: whenever a run ends in failure, the notebook document is as it was
\* before the run.
C3_FailureLeavesDocument ==
    (phase = "returned" /\ err # "none") => doc = doc0

\* C4: an error raised in a phase aborts the run: the run has returned from
\* query_rag without raising, no phase runs after the failing one, and the
\* failed exec is not invoked again.
C4_ErrorAborts ==
    /\ [](errors > 0 =>
            /\ phase = "returned"
            /\ err # "none"
            /\ errors = 1
            /\ ~raised)
    /\ [][errors > 0 => log' = log /\ curr' = curr /\ shared' = shared]_vars

C4_Witness ==
    /\ errors = 1
    /\ phase = "returned"
    /\ curr = "Generate"
    /\ LastPhase = <<"Generate", "exec">>
    /\ ~raised

C6_SourcesInReturnedOrder ==
    RetrieveWritten =>
        shared["sources"] =
            [i \in 1..Len(search_results) |-> search_results[i].id]

\* C6 amended: sources holds one identifier per returned pair (None for a
\* passage without one), in the order the passages take in context.
C6_SourcesParallelToContext ==
    RetrieveWritten =>
        LET pages == ContextPages(shared["context"])
            sources == shared["sources"] IN
        /\ Len(sources) = Len(search_results)
        /\ Len(sources) = Len(pages)
        /\ \A i \in 1..Len(sources) : sources[i] = IdOfPage(pages[i])

C6_Witness ==
    /\ RetrieveWritten
    /\ Len(search_results) = 3
    /\ search_results[1].page = "docD"
    /\ search_results[2].page = "docB"
    /\ search_results[3].page = "docA"
    /\ shared["sources"] = <<"idA", None, "idB">>

\* C7: in the wired graph, "insufficient_context" from Evaluate leads to
\* Retrieve, "invalid_code" from Verify leads to Generate, and a label other
\* than "default" never leads to the node behind the default edge.
C7_BackEdges ==
    /\ (JustPosted("Evaluate") /\ last_action = "insufficient_context")
          => (curr = "Retrieve" /\ phase = "prep")
    /\ (JustPosted("Verify") /\ last_action = "invalid_code")
          => (curr = "Generate" /\ phase = "prep")
    /\ \A i \in 1..6 :
          (JustPosted(<<"Analyze", "Decompose", "Retrieve", "Evaluate",
                        "Generate", "Verify">>[i])
             /\ last_action # "default")
          => curr # <<"Decompose", "Retrieve", "Evaluate", "Generate",
                      "Verify", "Save">>[i]

C7_Witness ==
    /\ JustPosted("Verify")
    /\ last_action = "invalid_code"
    /\ curr = "Generate"
    /\ \E i \in 1..(Len(log) - 1) :
          log[i] = <<"Evaluate", "post">> /\ log[i + 1] = <<"Retrieve", "prep">>

\* C8: with a corrupt notebook document, Save raises no error over it and
\* leaves a document that holds exactly the new entry.
C8_CorruptRecovery ==
    doc0.state = "corrupt" =>
        /\ err # "NotebookReadError"
        /\ (curr = "Save" /\ phase = "write") =>
              nb = <<NewCodeCell(query, shared["code_response"])>>
        /\ (Finished \/ (curr = "Save" /\ phase = "post")) =>
              doc = NotebookDoc(<<NewCodeCell(query,
                                              shared["code_response"])>>)

C8_Witness ==
    /\ doc0.state = "corrupt"
    /\ Finished
    /\ doc.state = "ok"
    /\ Len(doc.cells) = 1

\* C9: Save is terminal: the label its post returns has no edge, the run
\* ends there without error, and no phase of any node follows.
C9_SaveTerminal ==
    \A i \in 1..Len(log) :
        log[i] = <<"Save", "post">> =>
            /\ i = Len(log)
            /\ phase = "returned"
            /\ err = "none"
            /\ curr = None
            /\ last_action \notin DOMAIN Successors["Save"]

C9_Witness ==
    /\ log # <<>>
    /\ LastPhase = <<"Save", "post">>
    /\ phase = "returned"
    /\ last_action = "default"

\* C10: Evaluate and Verify return "default" whatever text they computed, so
\* no run takes a back-edge and Retrieve and Generate are activated at most
\* once.
C10_BackEdgesNeverTaken ==
    /\ (JustPosted("Evaluate") \/ JustPosted("Verify"))
          => last_action = "default"
    /\ Count(Trace, "Retrieve") <= 1
    /\ Count(Trace, "Generate") <= 1
    /\ \A i \in 1..(Len(Trace) - 1) :
          /\ Trace[i] = "Evaluate" => Trace[i + 1] = "Generate"
          /\ Trace[i] = "Verify" => Trace[i + 1] = "Save"

C10_Witness ==
    /\ Finished
    /\ shared["context_evaluation"] = <<"poor">>
    /\ shared["code_verification"] = <<"invalid">>
    /\ Count(Trace, "Retrieve") = 1
    /\ Count(Trace, "Generate") = 1

\* the labels node n has returned so far, in order
LabelsOf(n) ==
    LET mine == SelectSeq(labels, LAMBDA e : e[1] = n)
    IN  [i \in 1..Len(mine) |-> mine[i][2]]

InTrace(n) == \E i \in 1..Len(Trace) : Trace[i] = n

\* C11: on every path of the wired graph, back-edges included, no prep or
\* post finds a key missing (no KeyError), and Save's post finds sources and
\* code_response.
C11_NoPrecursorMissing ==
    /\ err # "KeyError"
    /\ (curr = "Save" /\ phase = "post") =>
          {"sources", "code_response"} \subseteq DOMAIN shared

C11_Witness ==
    /\ JustPosted("Save")
    /\ Count(Trace, "Retrieve") = 2
    /\ Count(Trace, "Generate") = 2
    /\ errors = 0

\* C12: the shared state's query is always the query the run was created
\* with, and no key of the shared state is ever removed.
C12_QueryFixedKeysKept ==
    /\ []("query" \in DOMAIN shared /\ shared["query"] = query)
    /\ [][DOMAIN shared \subseteq DOMAIN shared']_vars

C12_Witness ==
    /\ JustPosted("Save")
    /\ overwritten # {}
    /\ Cardinality(DOMAIN shared) = 8
    /\ shared["query"] = <<"mug", "\n", "handle">>

\* C13: a step changes or adds a key of the shared state only in the post of
\* the key's one writer node (Analyze query_type, Decompose task_steps,
\* Retrieve context and sources, Evaluate context_evaluation, Generate
\* code_response, Verify code_verification, Save none) and removes none.
C13_OnlyOwnKeys ==
    [][ /\ DOMAIN shared \subseteq DOMAIN shared'
        /\ \A k \in DOMAIN shared' :
             (k \notin DOMAIN shared \/ shared'[k] # shared[k]) =>
                /\ phase = "post"
                /\ k \in (CASE curr = "Analyze"   -> {"query_type"}
                            [] curr = "Decompose" -> {"task_steps"}
                            [] curr = "Retrieve"  -> {"context", "sources"}
                            [] curr = "Evaluate"  -> {"context_evaluation"}
                            [] curr = "Generate"  -> {"code_response"}
                            [] curr = "Verify"    -> {"code_verification"}
                            [] OTHER              -> {}) ]_vars

C13_Witness ==
    /\ JustPosted("Save")
    /\ DOMAIN shared = {"query", "query_type", "task_steps", "context",
                        "sources", "context_evaluation", "code_response",
                        "code_verification"}
    /\ "code_response" \in overwritten

\* C14: when Retrieve's post overwrites context and sources, the new values
\* are built only from the preamble and the latest search result: one
\* passage and one identifier per latest pair, and a passage or identifier
\* of the earlier values remains only if the latest search returned it.
C14_RetrieveReplaces ==
    [][ (curr = "Retrieve" /\ phase = "post" /\ log' # log
           /\ {"context", "sources"} \subseteq DOMAIN shared) =>
          LET ctx == shared'["context"]
              src == shared'["sources"]
              latestPages == { search_results[i].page :
                                 i \in 1..Len(search_results) }
              latestIds == { search_results[i].id :
                               i \in 1..Len(search_results) }
              oldPages == { ContextPages(shared["context"])[i] :
                              i \in 1..Len(ContextPages(shared["context"])) }
              oldIds == { shared["sources"][i] :
                            i \in 1..Len(shared["sources"]) }
          IN  /\ Len(ctx) = Len(BaseContext) + 2 * Len(search_results)
              /\ SubSeq(ctx, 1, Len(BaseContext)) = BaseContext
              /\ { ContextPages(ctx)[i] : i \in 1..Len(ContextPages(ctx)) }
                   = latestPages
              /\ Len(src) = Len(search_results)
              /\ { src[i] : i \in 1..Len(src) } = latestIds
              /\ \A p \in oldPages \ latestPages :
                   \A i \in 1..Len(ctx) : ctx[i] # p
              /\ \A d \in oldIds \ latestIds :
                   \A i \in 1..Len(src) : src[i] # d ]_vars

C14_Witness ==
    /\ JustPosted("Retrieve")
    /\ Count(Trace, "Retrieve") = 2
    /\ {"context", "sources"} \subseteq overwritten
    /\ shared["context"] = <<"examples", "\n\n---\n\n", "docB">>
    /\ shared["sources"] = <<"idB">>

\* C15: the graph has no bound on activations.  While every label Evaluate
\* has returned is "insufficient_context" the run has reached neither
\* Generate nor Save and goes on to Retrieve, and while every label Verify
\* has returned is "invalid_code" it has not reached Save and goes on to
\* Generate; the looping step is possible after any number of activations
\* (below the bound of the model); and a run that reached Save had
\* "default" as the last label of Evaluate and of Verify.
C15_UnboundedRetry ==
    /\ (\A i \in 1..Len(LabelsOf("Evaluate")) :
            LabelsOf("Evaluate")[i] = "insufficient_context") =>
          /\ ~InTrace("Generate")
          /\ ~InTrace("Save")
          /\ JustPosted("Evaluate") => (curr = "Retrieve" /\ phase = "prep")
    /\ (\A i \in 1..Len(LabelsOf("Verify")) :
            LabelsOf("Verify")[i] = "invalid_code") =>
          /\ ~InTrace("Save")
          /\ JustPosted("Verify") => (curr = "Generate" /\ phase = "prep")
    /\ (curr = "Evaluate" /\ phase = "post" /\ Len(Trace) < MaxActivations)
          => ENABLED EvaluatePostWith("insufficient_context")
    /\ (curr = "Verify" /\ phase = "post" /\ Len(Trace) < MaxActivations)
          => ENABLED VerifyPostWith("invalid_code")
    /\ InTrace("Save") =>
          /\ LabelsOf("Evaluate")[Len(LabelsOf("Evaluate"))] = "default"
          /\ LabelsOf("Verify")[Len(LabelsOf("Verify"))] = "default"

C15_Witness ==
    /\ JustPosted("Evaluate")
    /\ LabelsOf("Evaluate") = <<"insufficient_context",
                                "insufficient_context",
                                "insufficient_context">>
    /\ Count(Trace, "Retrieve") = 3
    /\ curr = "Retrieve"
    /\ ~InTrace("Save")

\* C16: when both runs have saved, the notebook holds the earlier cells and
\* then only one of the two new cells if the runs' reads and writes
\* interleaved (each read the file before the other wrote it), and both new
\* cells if one run's Save came wholly after the other's.
C16_LostUpdate ==
    (Finished /\ other_phase = "done") =>
        LET base == ReadNotebook(doc0).cells
            mine == NewCodeCell(query, shared["code_response"])
        IN  /\ doc.state = "ok"
            /\ overlapped =>
                 doc.cells \in { base \o <<mine>>, base \o <<OtherCell>> }
            /\ ~overlapped =>
                 doc.cells \in { base \o <<mine, OtherCell>>,
                                 base \o <<OtherCell, mine>> }

C16_Witness ==
    /\ Finished
    /\ other_phase = "done"
    /\ overlapped
    /\ doc0.cells # <<>>
    /\ doc.cells = doc0.cells \o <<OtherCell>>

\* C17: activations do not overlap and run prepare, execute, finalize in
\* that order: the first phase is a prep, a prep is followed by the exec of
\* the same node, an exec by the post of the same node, a post by a prep;
\* and the shared state changes only in a post.
C17_SequentialPhases ==
    /\ [](\A i \in 1..Len(log) :
            /\ i = 1 => log[i] = <<StartNode, "prep">>
            /\ i < Len(log) =>
                 /\ log[i][2] = "prep" => log[i + 1] = <<log[i][1], "exec">>
                 /\ log[i][2] = "exec" => log[i + 1] = <<log[i][1], "post">>
                 /\ log[i][2] = "post" => log[i + 1][2] = "prep")
    /\ [][shared' # shared =>
            /\ phase = "post"
            /\ log' = Append(log, <<curr, "post">>)]_vars

C17_Witness ==
    /\ JustPosted("Save")
    /\ Len(Trace) = 9
    /\ Len(log) = 27
    /\ overwritten # {}

\* C18: with the guideline document unreadable, Generate's prep raises no
\* error and returns the prompt with the placeholder text as guidelines, and
\* a run that no other failure ends goes on through Generate's exec, Verify
\* and Save.
C18_GuidelineFallback ==
    ~guide_ok =>
        /\ (log # <<>> /\ LastPhase = <<"Generate", "prep">>) =>
              /\ err = "none"
              /\ phase = "exec"
              /\ prep_res.context = <<"No guidelines available.">>
              /\ prep_res.question = query
        /\ Finished =>
              /\ Len(log) = 21
              /\ log[14] = <<"Generate", "exec">>
              /\ log[16] = <<"Verify", "prep">>
              /\ log[19] = <<"Save", "prep">>

C18_Witness ==
    /\ ~guide_ok
    /\ Finished
    /\ InTrace("Save")
    /\ doc.state = "ok"

\* C19: the prompt Generate hands to the language model is determined by
\* the query and the guideline document alone, whatever the search
\* returned and the model answered before.
C19_PromptFromQueryAndGuide ==
    (curr = "Generate" /\ phase \in {"exec", "post"}) =>
        prep_res = [template |-> "PROMPT_TEMPLATE",
                    context |-> IF guide_ok
                                THEN <<"guide">>
                                ELSE <<"No guidelines available.">>,
                    question |-> query]

C19_Witness ==
    /\ curr = "Generate"
    /\ phase = "exec"
    /\ Len(search_results) = 3
    /\ shared["context_evaluation"] = <<"poor">>
    /\ guide_ok

====
